---------------------------- MODULE Spec2Model ----------------------------
(***************************************************************************)
(* Model of sarracen/interpolate.py: interpolate2D (SPH particles to a 2D  *)
(* pixel grid) and interpolate2DCross (SPH particles to a 1D cross-section *)
(* line).                                                                  *)
(*                                                                         *)
(* Numbers.  The code computes in IEEE-754 double precision (Python float, *)
(* numpy float64), and so does the model.  A value is a record [s, m, e]   *)
(* standing for s * m * 2^e: s is the sign (0 for zero), m an odd natural  *)
(* number of at most 53 bits, kept as a sequence of limbs base 2^14, least *)
(* significant first (TLC's integers are 32 bits wide), and e an integer.  *)
(* Every operation +, -, *, /, sqrt is the exact operation followed by one *)
(* rounding to 53 bits, to nearest, ties to even.                          *)
(*                                                                         *)
(* x ** 2.  On a pandas Series or numpy array it is the elementwise x * x  *)
(* (FSq).  On a scalar it is the C library's pow(x, 2.0) (Pow2), whose     *)
(* result is within one unit in the last place of x^2 but need not be the  *)
(* nearest double: it is one of the two doubles that enclose x^2, which    *)
(* one is a property of the library the program runs on.  The variable     *)
(* powup holds that property: the magnitudes |x| for which pow returns the *)
(* upper of the two.  It is chosen freely when a call begins and never     *)
(* changes.                                                                *)
(* Left out: infinities, subnormals, the sign of zero, and NaN but for the *)
(* one the code meets on the inputs used here, 0/0 for a particle whose    *)
(* target is 0 (filter_weight).  The inputs keep rho and h nonzero.        *)
(***************************************************************************)
EXTENDS Integers, Sequences, FiniteSets, TLC

VARIABLES
    fn,        \* which entry point was called
    args,      \* the call's scalar arguments, its kernel and the kernel's ndims
    data,      \* the particle rows, a sequence; row r has index label r-1
    pc,        \* "start", "loop", "done" (returned), "raised" (exception)
    err,       \* the exception that ended the call, "" if none
    image,     \* interpolate2D: image[jpix][ipix], <<>> before np.zeros
    output,    \* interpolate2DCross: output[ipix], <<>> before np.zeros
    k,         \* position of the for loop: next row (2D) / next entry of nonzero (cross)
    ser,       \* interpolate2DCross: the pandas Series ipixmin, ipixmax (label -> value)
    nonzero,   \* interpolate2DCross: filter_det.to_numpy().nonzero()[0]
    powup      \* the C library: the |x| for which pow(x, 2.0) is rounded up

vars == <<fn, args, data, pc, err, image, output, k, ser, nonzero, powup>>

---------------------------------------------------------------------------
(* Natural numbers of any size: sequences of limbs, least significant      *)
(* first, no zero limb at the top; <<>> is 0.                              *)

Abs(x) == IF x < 0 THEN -x ELSE x

Max(a, b) == IF a >= b THEN a ELSE b

Min(a, b) == IF a <= b THEN a ELSE b

LimbBits == 14

Base == 2 ^ LimbBits

\* the limbs of the number whose i-th limb-place holds c[i], plus carry
RECURSIVE NCarry(_, _, _)
NCarry(c, i, carry) ==
    IF i > Len(c)
    THEN IF carry = 0 THEN <<>> ELSE <<carry % Base>> \o NCarry(c, i, carry \div Base)
    ELSE <<(c[i] + carry) % Base>> \o NCarry(c, i + 1, (c[i] + carry) \div Base)

RECURSIVE NTrim(_)
NTrim(a) == IF a # <<>> /\ a[Len(a)] = 0 THEN NTrim(SubSeq(a, 1, Len(a) - 1)) ELSE a

NLimb(a, i) == IF i >= 1 /\ i <= Len(a) THEN a[i] ELSE 0

\* from and to a machine integer
NInt(x) == NCarry(<<>>, 1, x)

RECURSIVE NToInt(_)
NToInt(a) == IF a = <<>> THEN 0 ELSE a[1] + Base * NToInt(Tail(a))

NAdd(a, b) == NCarry([i \in 1..Max(Len(a), Len(b)) |-> NLimb(a, i) + NLimb(b, i)], 1, 0)

RECURSIVE NBorrow(_, _, _, _)
NBorrow(a, b, i, borrow) ==
    IF i > Len(a) THEN <<>>
    ELSE LET t == a[i] - NLimb(b, i) - borrow
         IN  IF t < 0 THEN <<t + Base>> \o NBorrow(a, b, i + 1, 1)
             ELSE <<t>> \o NBorrow(a, b, i + 1, 0)

\* a - b for a >= b
NSub(a, b) == NTrim(NBorrow(a, b, 1, 0))

RECURSIVE NCmpFrom(_, _, _)
NCmpFrom(a, b, i) ==
    IF i = 0 THEN 0
    ELSE IF a[i] < b[i] THEN -1
    ELSE IF a[i] > b[i] THEN 1
    ELSE NCmpFrom(a, b, i - 1)

\* the sign of a - b
NCmp(a, b) ==
    IF Len(a) < Len(b) THEN -1
    ELSE IF Len(a) > Len(b) THEN 1
    ELSE NCmpFrom(a, b, Len(a))

RECURSIVE NConv(_, _, _, _)
NConv(a, b, n, i) ==
    IF i > Len(a) THEN 0
    ELSE a[i] * NLimb(b, n + 1 - i) + NConv(a, b, n, i + 1)

NMul(a, b) ==
    IF a = <<>> \/ b = <<>> THEN <<>>
    ELSE NCarry([n \in 1..(Len(a) + Len(b) - 1) |-> NConv(a, b, n, 1)], 1, 0)

\* a * c + d for machine integers 0 <= c, d < Base
NMulAdd(a, c, d) == NCarry([i \in 1..Len(a) |-> a[i] * c], 1, d)

\* the number of bits of a machine integer x >= 0
BitLen(x) == CHOOSE n \in 0..31 : x < 2 ^ n /\ (n = 0 \/ 2 ^ (n - 1) <= x)

NBitLen(a) == IF a = <<>> THEN 0 ELSE LimbBits * (Len(a) - 1) + BitLen(a[Len(a)])

\* bit i of a, bit 0 the least significant
NBit(a, i) == (NLimb(a, (i \div LimbBits) + 1) \div (2 ^ (i % LimbBits))) % 2

\* a * 2^n
NShl(a, n) ==
    IF a = <<>> THEN <<>>
    ELSE [i \in 1..(n \div LimbBits) |-> 0] \o NMulAdd(a, 2 ^ (n % LimbBits), 0)

\* floor(a / 2^n)
NShr(a, n) ==
    LET q == n \div LimbBits
        r == n % LimbBits
    IN  IF q >= Len(a) THEN <<>>
        ELSE NTrim([i \in 1..(Len(a) - q) |->
                      (a[i + q] \div (2 ^ r))
                      + (NLimb(a, i + q + 1) % (2 ^ r)) * (2 ^ (LimbBits - r))])

\* 2^n divides a
NLowZero(a, n) == NShl(NShr(a, n), n) = a

\* the number of trailing zero bits of a # 0
NTrailing(a) ==
    LET i == CHOOSE i \in 1..Len(a) : a[i] # 0 /\ \A j \in 1..(i - 1) : a[j] = 0
        t == CHOOSE t \in 0..(LimbBits - 1) : a[i] % (2 ^ (t + 1)) # 0 /\ a[i] % (2 ^ t) = 0
    IN  LimbBits * (i - 1) + t

\* floor(R / D) for R < D * Base, the top limb of D at least Base / 2: the
\* estimate from the top limbs is at most 2 too large
RECURSIVE NDigitFix(_, _, _)
NDigitFix(R, D, q) ==
    IF NCmp(NMulAdd(D, q, 0), R) > 0 THEN NDigitFix(R, D, q - 1) ELSE q

NDigit(R, D) ==
    IF NCmp(R, D) < 0 THEN 0
    ELSE NDigitFix(R, D,
            Min(Base - 1,
                (NLimb(R, Len(D) + 1) * Base + NLimb(R, Len(D))) \div D[Len(D)]))

\* long division of the limbs N[i], .. N[Len(N)] by D: [q, r]
RECURSIVE NDivLimbs(_, _, _)
NDivLimbs(N, D, i) ==
    IF i + Len(D) > Len(N) + 1
    THEN [q |-> <<>>, r |-> NTrim(SubSeq(N, i, Len(N)))]
    ELSE LET up == NDivLimbs(N, D, i + 1)
         IN  IF up.r = <<>> /\ N[i] = 0
             THEN [q |-> IF up.q = <<>> THEN <<>> ELSE <<0>> \o up.q, r |-> <<>>]
             ELSE LET R == <<N[i]>> \o up.r
                      q == NDigit(R, D)
                  IN  IF q = 0
                      THEN [q |-> IF up.q = <<>> THEN <<>> ELSE <<0>> \o up.q, r |-> R]
                      ELSE [q |-> <<q>> \o up.q, r |-> NSub(R, NMulAdd(D, q, 0))]

\* [q, r] for D # 0: q = floor(N / D), and r = N - q * D moved up by the
\* shift that brings the top limb of D to Base / 2 at least
NDivMod(N, D) ==
    LET s == LimbBits * Len(D) - NBitLen(D)
    IN  NDivLimbs(NShl(N, s), NShl(D, s), 1)

\* Newton's iteration down from x >= floor(sqrt(n)), on machine integers
RECURSIVE ISqrtFrom(_, _)
ISqrtFrom(n, x) ==
    LET y == (x + n \div x) \div 2
    IN  IF y >= x THEN x ELSE ISqrtFrom(n, y)

\* one step of Newton's iteration for floor(sqrt(N))
NSqrtStep(N, x) == NShr(NAdd(x, NDivMod(N, x).q), 1)

\* Newton's iteration down from x >= floor(sqrt(N)): the first iterate
\* that is not below its predecessor ends it
RECURSIVE NSqrtFrom(_, _)
NSqrtFrom(N, x) ==
    LET y == NSqrtStep(N, x)
    IN  IF NCmp(y, x) >= 0 THEN x ELSE NSqrtFrom(N, y)

\* floor(sqrt(N)) for N # 0
NSqrt(N) ==
    LET t  == Max(0, (NBitLen(N) - 29) \div 2)
        n  == ISqrtFrom(NToInt(NShr(N, 2 * t)), 32768) + 1
    IN  IF n = 0 THEN <<>> ELSE NSqrtFrom(N, NShl(NInt(n), t))

---------------------------------------------------------------------------
(* Dyadic numbers s * m * 2^e (the D operators: exact), and the doubles    *)
(* among them (the F operators: rounded to Precision bits).                *)

Precision == 53

Zero == [s |-> 0, m |-> <<>>, e |-> 0]

\* the number of sign s and magnitude N * 2^e, its mantissa made odd
Canon(s, N, e) ==
    IF N = <<>> THEN Zero
    ELSE LET tz == NTrailing(N)
         IN  [s |-> s, m |-> NShr(N, tz), e |-> e + tz]

\* the double nearest to s * (N + f) * 2^e, where 0 <= f < 1 and sticky
\* tells f # 0: round to nearest, ties to even
Round(s, N, e, sticky) ==
    LET sh == NBitLen(N) - Precision
    IN  IF sh <= 0 THEN Canon(s, N, e)
        ELSE LET q    == NShr(N, sh)
                 half == NBit(N, sh - 1) = 1
                 rest == sticky \/ ~NLowZero(N, sh - 1)
                 up   == half /\ (rest \/ NBit(q, 0) = 1)
             IN  Canon(s, IF up THEN NAdd(q, <<1>>) ELSE q, e + sh)

\* the double n * 2^e, n a machine integer
F(n, e) == Canon(IF n < 0 THEN -1 ELSE 1, NInt(Abs(n)), e)

FInt(n) == F(n, 0)

FNeg(a) == [a EXCEPT !.s = -a.s]

FAbs(a) == [a EXCEPT !.s = Abs(a.s)]

\* the sign of |a| - |b| for nonzero a, b
MagCmp(a, b) ==
    LET e == Min(a.e, b.e)
    IN  IF NBitLen(a.m) + a.e < NBitLen(b.m) + b.e THEN -1
        ELSE IF NBitLen(a.m) + a.e > NBitLen(b.m) + b.e THEN 1
        ELSE NCmp(NShl(a.m, a.e - e), NShl(b.m, b.e - e))

\* the sign of a - b
FCmp(a, b) ==
    IF a.s # b.s THEN (IF a.s < b.s THEN -1 ELSE 1)
    ELSE IF a.s = 0 THEN 0
    ELSE a.s * MagCmp(a, b)

FLt(a, b) == FCmp(a, b) < 0

FLe(a, b) == FCmp(a, b) <= 0

\* a + b, exact
DAdd(a, b) ==
    IF a.s = 0 THEN b
    ELSE IF b.s = 0 THEN a
    ELSE LET e == Min(a.e, b.e)
             A == NShl(a.m, a.e - e)
             B == NShl(b.m, b.e - e)
             c == NCmp(A, B)
         IN  IF a.s = b.s THEN Canon(a.s, NAdd(A, B), e)
             ELSE IF c = 0 THEN Zero
             ELSE IF c > 0 THEN Canon(a.s, NSub(A, B), e)
             ELSE Canon(b.s, NSub(B, A), e)

DSub(a, b) == DAdd(a, FNeg(b))

\* a * b, exact
DMul(a, b) == Canon(a.s * b.s, NMul(a.m, b.m), a.e + b.e)

\* the double nearest to the dyadic number x
FRound(x) == IF x.s = 0 THEN Zero ELSE Round(x.s, x.m, x.e, FALSE)

FAdd(a, b) == IF a.s = 0 THEN b ELSE IF b.s = 0 THEN a ELSE FRound(DAdd(a, b))

FSub(a, b) == IF b.s = 0 THEN a ELSE IF a.s = 0 THEN FNeg(b) ELSE FRound(DSub(a, b))

FMul(a, b) == IF a.s = 0 \/ b.s = 0 THEN Zero ELSE FRound(DMul(a, b))

\* x ** 2 on a Series or array: x * x
FSq(a) == FMul(a, a)

\* the double next to the dyadic number x towards zero (x itself if a double)
FRoundDown(x) ==
    IF x.s = 0 THEN Zero
    ELSE LET sh == NBitLen(x.m) - Precision
         IN  IF sh <= 0 THEN x ELSE Canon(x.s, NShr(x.m, sh), x.e + sh)

\* the double next to the dyadic number x away from zero (x itself if a double)
FRoundUp(x) ==
    IF x.s = 0 THEN Zero
    ELSE LET sh == NBitLen(x.m) - Precision
         IN  IF sh <= 0 THEN x ELSE Canon(x.s, NAdd(NShr(x.m, sh), <<1>>), x.e + sh)

\* x ** 2 on a scalar: pow(x, 2.0), the lower or the upper of the two doubles
\* that enclose x * x (the same double when x * x is one), as the library has it
Pow2(x) == IF FAbs(x) \in powup THEN FRoundUp(DMul(x, x)) ELSE FRoundDown(DMul(x, x))

\* among the scalars S, the magnitudes whose square is no double
Inexact(S) == {FAbs(x) : x \in {y \in S : FRoundDown(DMul(y, y)) # FRoundUp(DMul(y, y))}}

\* bits of quotient and of root computed before rounding: Precision, the
\* rounding bit, and two to spare
DivBits == Precision + 3

\* a / b for b # 0
FDiv(a, b) ==
    IF b.s # 0 /\ a.s = 0 THEN Zero
    ELSE LET n  == DivBits + NBitLen(b.m) - NBitLen(a.m)
             qr == NDivMod(NShl(a.m, n), b.m)
         IN  Round(a.s * b.s, qr.q, a.e - b.e - n, qr.r # <<>>)

\* np.sqrt(a) for a >= 0
FSqrt(a) ==
    IF a.s = 0 THEN Zero
    ELSE LET odd == a.e % 2 = 1
             M   == IF odd THEN NMulAdd(a.m, 2, 0) ELSE a.m
             e   == IF odd THEN a.e - 1 ELSE a.e
             k0  == DivBits - 1 - (NBitLen(M) + 1) \div 2
             N   == NShl(M, 2 * k0)
             r   == NSqrt(N)
         IN  IF r = <<>> THEN Zero
             ELSE Round(1, r, (e \div 2) - k0, NMul(r, r) # N)

\* int(np.rint(a)): round to the nearest integer, halves to the even one
Rint(a) ==
    IF a.s = 0 THEN 0
    ELSE IF a.e >= 0 THEN a.s * NToInt(NShl(a.m, a.e))
    ELSE LET sh   == -a.e
             q    == NShr(a.m, sh)
             half == NBit(a.m, sh - 1) = 1
             rest == ~NLowZero(a.m, sh - 1)
             up   == half /\ (rest \/ NBit(q, 0) = 1)
         IN  a.s * (NToInt(q) + IF up THEN 1 ELSE 0)

\* pandas Series.clip(lower, upper) with scalar bounds: the bounds are put in
\* order first (min, max), then the value is limited to them
Clip(a, lower, upper) ==
    LET lo == IF FLe(lower, upper) THEN lower ELSE upper
        hi == IF FLe(lower, upper) THEN upper ELSE lower
    IN  IF FLt(a, lo) THEN lo ELSE IF FLt(hi, a) THEN hi ELSE a

\* the defaults of np.isclose: the doubles written 1e-8 and 1e-5
atol == FDiv(FInt(1), FInt(100000000))

rtol == FDiv(FInt(1), FInt(100000))

\* np.isclose(a, b): |a - b| <= atol + rtol * |b|
IsClose(a, b) == FLe(FAbs(FSub(a, b)), FAdd(atol, FMul(rtol, FAbs(b))))

---------------------------------------------------------------------------
(* The kernel (sarracen.kernels.BaseKernel) is no part of interpolate.py;  *)
(* it is known here by its contract alone: w(q) >= 0 for q in              *)
(* [0, radkernel], w(q) = 0 outside, radkernel > 0, ndims in {1, 2, 3}.    *)
(* Nothing is assumed of w inside the support: not its value at radkernel, *)
(* not continuity, not monotonicity.  A call carries the kernel it was     *)
(* given (args.kernel); the kernels modelled are two that keep the         *)
(* contract and differ at the edge of the support:                         *)
(*   "quadratic"  w(q) = radkernel^2 - q^2,  0 at q = radkernel            *)
(*   "tophat"     w(q) = 1,                  1 at q = radkernel            *)

radkernel == 2

Kernels == {"quadratic", "tophat"}

KernelW(kernel, q) ==
    IF FLe(q, FInt(radkernel))
    THEN IF kernel = "tophat"
         THEN FInt(1)
         ELSE FSub(FInt(radkernel * radkernel), FSq(q))
    ELSE Zero

---------------------------------------------------------------------------
(* interpolate2D                                                           *)

\* Check2D with "pixcounty < 0" for "pixcounty <= 0"
Check2D_StrictCount(a) ==
    IF FLe(a.pixwidthx, Zero) THEN "ValueError:pixwidthx"
    ELSE IF FLe(a.pixwidthy, Zero) THEN "ValueError:pixwidthy"
    ELSE IF a.pixcountx <= 0 THEN "ValueError:pixcountx"
    ELSE IF a.pixcounty < 0 THEN "ValueError:pixcounty"
    ELSE IF a.ndims # 2 THEN "ValueError:kernel"
    ELSE ""

\* lines 38-48: the exception the argument checks raise, "" if none
Check2D(a) ==
    IF FLe(a.pixwidthx, Zero) THEN "ValueError:pixwidthx"
    ELSE IF FLe(a.pixwidthy, Zero) THEN "ValueError:pixwidthy"
    ELSE IF a.pixcountx <= 0 THEN "ValueError:pixcountx"
    ELSE IF a.pixcounty <= 0 THEN "ValueError:pixcounty"
    ELSE IF a.ndims # 2 THEN "ValueError:kernel"
    ELSE ""

\* line 50: np.zeros((pixcounty, pixcountx))
Zeros2D(a) == [jpix \in 0..(a.pixcounty - 1) |-> [ipix \in 0..(a.pixcountx - 1) |-> Zero]]

\* line 56
weight(p) == FDiv(p.m, FMul(p.rho, Pow2(p.h)))

\* Skip2D with "weight == 0" for "weight <= 0"
Skip2D_ZeroOnly(p) == weight(p) = Zero

\* line 59: the particle is skipped
Skip2D(p) == FLe(weight(p), Zero)

\* line 63
radkern(p) == FMul(FInt(radkernel), p.h)

\* line 64
term2D(p) == FMul(weight(p), p.target)

\* lines 65-66
hi21(p) == Pow2(FDiv(FInt(1), p.h))

\* lines 72, 78-79
ipixmin2D(a, p) ==
    Max(0, Rint(FDiv(FSub(FSub(p.x, radkern(p)), a.xmin), a.pixwidthx)))

\* lines 73, 82-83
jpixmin2D(a, p) ==
    Max(0, Rint(FDiv(FSub(FSub(p.y, radkern(p)), a.ymin), a.pixwidthy)))

\* lines 74, 80-81
ipixmax2D(a, p) ==
    Min(a.pixcountx, Rint(FDiv(FSub(FAdd(p.x, radkern(p)), a.xmin), a.pixwidthx)))

\* lines 75, 84-85
jpixmax2D(a, p) ==
    Min(a.pixcounty, Rint(FDiv(FSub(FAdd(p.y, radkern(p)), a.ymin), a.pixwidthy)))

\* dx2i measured from the pixel's left edge: "ipix" for "ipix + 0.5"
dx2i_Edge(a, p, ipix) ==
    FMul(Pow2(FSub(FAdd(a.xmin, FMul(FInt(ipix), a.pixwidthx)), p.x)), hi21(p))

\* line 90: dx2i[ipix]
dx2i(a, p, ipix) ==
    FMul(Pow2(FSub(FAdd(a.xmin, FMul(F(2 * ipix + 1, -1), a.pixwidthx)), p.x)), hi21(p))

\* lines 95-97: dy2 of row jpix
dy2(a, p, jpix) ==
    LET dy == FSub(FAdd(a.ymin, FMul(F(2 * jpix + 1, -1), a.pixwidthy)), p.y)
    IN  FMul(FMul(dy, dy), hi21(p))

\* lines 101-102: wab of the particle at pixel (jpix, ipix)
wab2D(a, p, jpix, ipix) == KernelW(a.kernel, FSqrt(FAdd(dx2i(a, p, ipix), dy2(a, p, jpix))))

\* Accumulate2D with the inner loop over every column of the image, reading
\* dx2i (np.zeros outside [ipixmin, ipixmax)) where it was never filled
Accumulate2D_AllColumns(img, a, p) ==
    IF Skip2D(p) THEN img
    ELSE LET imin == ipixmin2D(a, p)
             imax == ipixmax2D(a, p)
             jmin == jpixmin2D(a, p)
             jmax == jpixmax2D(a, p)
             t    == term2D(p)
         IN  [jpix \in DOMAIN img |-> [ipix \in DOMAIN img[jpix] |->
                IF jmin <= jpix /\ jpix < jmax
                THEN FAdd(img[jpix][ipix],
                          FMul(t, KernelW(a.kernel, FSqrt(FAdd(IF imin <= ipix /\ ipix < imax
                                                     THEN dx2i(a, p, ipix) ELSE Zero,
                                                     dy2(a, p, jpix))))))
                ELSE img[jpix][ipix]]]

\* lines 53-105: the image after one pass of the loop body for particle p
Accumulate2D(img, a, p) ==
    IF Skip2D(p) THEN img
    ELSE LET imin == ipixmin2D(a, p)
             imax == ipixmax2D(a, p)
             jmin == jpixmin2D(a, p)
             jmax == jpixmax2D(a, p)
             t    == term2D(p)
         IN  [jpix \in DOMAIN img |-> [ipix \in DOMAIN img[jpix] |->
                IF jmin <= jpix /\ jpix < jmax /\ imin <= ipix /\ ipix < imax
                THEN FAdd(img[jpix][ipix], FMul(t, wab2D(a, p, jpix, ipix)))
                ELSE img[jpix][ipix]]]

\* lines 50-107: the returned image for valid arguments
RECURSIVE Loop2D(_, _, _, _)
Loop2D(img, a, d, r) ==
    IF r > Len(d) THEN img ELSE Loop2D(Accumulate2D(img, a, d[r]), a, d, r + 1)

interpolate2D(a, d) ==
    IF Check2D(a) # ""
    THEN [err |-> Check2D(a), value |-> <<>>]
    ELSE [err |-> "", value |-> Loop2D(Zeros2D(a), a, d, 1)]

---------------------------------------------------------------------------
(* interpolate2DCross                                                      *)

\* CheckCross with "pixcount < 0" for "pixcount <= 0"
CheckCross_StrictCount(a) ==
    IF IsClose(a.y2, a.y1) /\ IsClose(a.x2, a.x1) THEN "ValueError:zero length"
    ELSE IF a.pixcount < 0 THEN "ValueError:pixcount"
    ELSE IF a.ndims # 2 THEN "ValueError:kernel"
    ELSE ""

\* CheckCross without the test of kernel.ndims
CheckCross_NoKernelTest(a) ==
    IF IsClose(a.y2, a.y1) /\ IsClose(a.x2, a.x1) THEN "ValueError:zero length"
    ELSE IF a.pixcount <= 0 THEN "ValueError:pixcount"
    ELSE ""

\* lines 136-143: the exception the argument checks raise, "" if none
CheckCross(a) ==
    IF IsClose(a.y2, a.y1) /\ IsClose(a.x2, a.x1) THEN "ValueError:zero length"
    ELSE IF a.pixcount <= 0 THEN "ValueError:pixcount"
    ELSE IF a.ndims # 2 THEN "ValueError:kernel"
    ELSE ""

\* line 145: np.zeros(pixcount)
ZerosCross(a) == [ipix \in 0..(a.pixcount - 1) |-> Zero]

\* lines 148-150
gradient(a) ==
    IF ~IsClose(a.x2, a.x1)
    THEN FDiv(FSub(a.y2, a.y1), FSub(a.x2, a.x1))
    ELSE Zero

\* line 151
yint(a) == FSub(a.y2, FMul(gradient(a), a.x2))

\* line 154
xlength(a) == FSqrt(FAdd(Pow2(FSub(a.x2, a.x1)), Pow2(FSub(a.y2, a.y1))))

\* line 155
pixwidth(a) == FDiv(xlength(a), FInt(a.pixcount))

\* line 156
xpixwidth(a) == FDiv(FSub(a.x2, a.x1), FInt(a.pixcount))

\* line 166
aa(a) == FAdd(FInt(1), Pow2(gradient(a)))

\* lines 148-166: the scalars of the line, the arguments with them; the
\* operators below read them from this record L
LineCross(a) ==
    [x1 |-> a.x1, y1 |-> a.y1, x2 |-> a.x2, y2 |-> a.y2, pixcount |-> a.pixcount,
     gradient |-> gradient(a), yint |-> yint(a), pixwidth |-> pixwidth(a),
     xpixwidth |-> xpixwidth(a), aa |-> aa(a), kernel |-> a.kernel]

\* line 159: term of one row
term(p) == FDiv(FMul(p.target, p.m), FMul(p.rho, FSq(p.h)))

\* line 160: term / target > 0; with target = 0 the quotient 0/0 is NaN and
\* NaN > 0 is False
filter_weight(p) == p.target.s # 0 /\ FLt(Zero, FDiv(term(p), p.target))

\* line 167
bb(L, p) ==
    FSub(FMul(FMul(FInt(2), L.gradient), FSub(L.yint, p.y)), FMul(FInt(2), p.x))

\* lines 168-170: data[x] ** 2 and the like are Series, yint ** 2 is a scalar
cc(L, p) ==
    FSub(FAdd(FSub(FAdd(FSq(p.x), FSq(p.y)), FMul(FMul(FInt(2), L.yint), p.y)),
              Pow2(L.yint)),
         FSq(FMul(FInt(radkernel), p.h)))

\* line 171
det(L, p) == FSub(FSq(bb(L, p)), FMul(FMul(FInt(4), L.aa), cc(L, p)))

\* line 174
filter_det(L, p) == FLe(Zero, det(L, p))

\* lines 175, 179
xstart(L, p) ==
    Clip(FDiv(FSub(FNeg(bb(L, p)), FSqrt(det(L, p))), FMul(FInt(2), L.aa)), L.x1, L.x2)

\* lines 175, 180
xend(L, p) ==
    Clip(FDiv(FAdd(FNeg(bb(L, p)), FSqrt(det(L, p))), FMul(FInt(2), L.aa)), L.x1, L.x2)

\* lines 184-185: the distance from (x1, y1) of the line's point at abscissa xs
rdist(L, xs) ==
    FSqrt(FAdd(FSq(FSub(xs, L.x1)),
               FSq(FSub(FAdd(FMul(L.gradient, xs), L.yint), L.y1))))

\* line 184
rstart(L, p) == rdist(L, xstart(L, p))

\* line 185
rend(L, p) == rdist(L, xend(L, p))

\* line 189, and the int() of line 196
ipixminCross(L, p) == Max(0, Min(L.pixcount, Rint(FDiv(rstart(L, p), L.pixwidth))))

\* line 190, and the int() of line 196
ipixmaxCross(L, p) == Max(0, Min(L.pixcount, Rint(FDiv(rend(L, p), L.pixwidth))))

\* The index labels of the rows: the default RangeIndex 0..n-1
Labels(d) == 0..(Len(d) - 1)

Row(d, l) == d[l + 1]

\* lines 167-171: the index of bb, cc, det and filter_det is that of
\* data[...][filter_weight]: the labels the weight filter keeps
IndexWeight(d) == {l \in Labels(d) : filter_weight(Row(d, l))}

\* lines 175-190: the index of xstart .. ipixmax is that of det[filter_det]
IndexDet(L, d) == {l \in IndexWeight(d) : filter_det(L, Row(d, l))}

\* lines 189-190: the Series ipixmin and ipixmax
SeriesCross(L, d) ==
    LET idx == IndexDet(L, d)
    IN  [ipixmin |-> [l \in idx |-> ipixminCross(L, Row(d, l))],
         ipixmax |-> [l \in idx |-> ipixmaxCross(L, Row(d, l))]]

\* the elements of a set of integers in increasing order
Sorted(S) ==
    [r \in 1..Cardinality(S) |->
        CHOOSE x \in S : Cardinality({y \in S : y < x}) = r - 1]

\* line 194: filter_det.to_numpy().nonzero()[0], the POSITIONS inside
\* filter_det (whose rows are those of IndexWeight) at which it is True
NonzeroCross(L, d) ==
    LET iw == IndexWeight(d)
    IN  Sorted({Cardinality({m \in iw : m < l}) : l \in IndexDet(L, d)})

\* line 196: abscissa of the midpoint of pixel ipix
xpix(L, ipix) == FAdd(L.x1, FMul(F(2 * ipix + 1, -1), L.xpixwidth))

\* line 197
ypix(L, ipix) == FAdd(FMul(L.gradient, xpix(L, ipix)), L.yint)

\* lines 198-202: kernel value of row p at pixel ipix
wabCross(L, p, ipix) ==
    LET dy == FSub(ypix(L, ipix), p.y)
        dx == FSub(xpix(L, ipix), p.x)
        q2 == FMul(FAdd(FMul(dx, dx), FMul(dy, dy)), FDiv(FInt(1), FMul(p.h, p.h)))
    IN  KernelW(L.kernel, FSqrt(q2))

\* lines 196-205 for the loop value i, once ipixmin[i] and ipixmax[i] were
\* found: position, h and term are read from data and term at label i
AccumulateCross(out, L, d, s, i) ==
    LET t == term(Row(d, i))
    IN  [ipix \in DOMAIN out |->
            IF s.ipixmin[i] <= ipix /\ ipix < s.ipixmax[i]
            THEN FAdd(out[ipix], FMul(wabCross(L, Row(d, i), ipix), t))
            ELSE out[ipix]]

\* line 196: ipixmin[i] looks label i up in the Series' index; a label that is
\* not there raises KeyError
KeyErrorCross(s, i) == i \notin DOMAIN s.ipixmin

\* lines 194-207
RECURSIVE LoopCross(_, _, _, _, _, _)
LoopCross(out, L, d, s, nz, r) ==
    IF r > Len(nz) THEN [err |-> "", value |-> out]
    ELSE IF KeyErrorCross(s, nz[r]) THEN [err |-> "KeyError", value |-> <<>>]
    ELSE LoopCross(AccumulateCross(out, L, d, s, nz[r]), L, d, s, nz, r + 1)

interpolate2DCross(a, d) ==
    IF CheckCross(a) # ""
    THEN [err |-> CheckCross(a), value |-> <<>>]
    ELSE LET L == LineCross(a)
         IN  LoopCross(ZerosCross(a), L, d, SeriesCross(L, d), NonzeroCross(L, d), 1)

---------------------------------------------------------------------------
(* The calls as state machines.                                            *)

NoSeries == [ipixmin |-> <<>>, ipixmax |-> <<>>]

\* lines 56, 66, 90: the scalars interpolate2D squares for the row p: h, hi1
\* and, if line 59 lets the row pass (m / rho > 0), the dx of its columns
PowArgs2D(a, p) ==
    {p.h} \cup
    IF p.m.s * p.rho.s = 1
    THEN {FDiv(FInt(1), p.h)} \cup
         {FSub(FAdd(a.xmin, FMul(F(2 * ipix + 1, -1), a.pixwidthx)), p.x) :
             ipix \in ipixmin2D(a, p)..(ipixmax2D(a, p) - 1)}
    ELSE {}

\* lines 154, 166, 169: the scalars interpolate2DCross squares
PowArgsCross(a) == {FSub(a.x2, a.x1), FSub(a.y2, a.y1), gradient(a), yint(a)}

\* the scalars a call that passes the argument checks squares with pow
PowArgs(f, a, d) ==
    IF f = "interpolate2D"
    THEN IF Check2D(a) # "" THEN {} ELSE UNION {PowArgs2D(a, d[r]) : r \in 1..Len(d)}
    ELSE IF CheckCross(a) # "" THEN {} ELSE PowArgsCross(a)

InitCalls(Calls) ==
    \E c \in Calls :
        /\ fn = c.fn
        /\ args = c.args
        /\ data = c.data
        /\ pc = "start"
        /\ err = ""
        /\ image = <<>>
        /\ output = <<>>
        /\ k = 0
        /\ ser = NoSeries
        /\ nonzero = <<>>
        /\ powup \in SUBSET Inexact(PowArgs(c.fn, c.args, c.data))

\* interpolate2D lines 38-50: the argument checks, then the zero image
Call2D ==
    /\ fn = "interpolate2D"
    /\ pc = "start"
    /\ IF Check2D(args) # ""
       THEN /\ pc' = "raised"
            /\ err' = Check2D(args)
            /\ UNCHANGED <<image, k>>
       ELSE /\ pc' = "loop"
            /\ image' = Zeros2D(args)
            /\ k' = 1
            /\ UNCHANGED err
    /\ UNCHANGED <<powup, fn, args, data, output, ser, nonzero>>

\* interpolate2D lines 53-105: one pass of the loop over data.iterrows()
Particle2D ==
    /\ fn = "interpolate2D"
    /\ pc = "loop"
    /\ k <= Len(data)
    /\ image' = Accumulate2D(image, args, data[k])
    /\ k' = k + 1
    /\ UNCHANGED <<powup, fn, args, data, pc, err, output, ser, nonzero>>

\* interpolate2D line 107
Return2D ==
    /\ fn = "interpolate2D"
    /\ pc = "loop"
    /\ k > Len(data)
    /\ pc' = "done"
    /\ UNCHANGED <<powup, fn, args, data, err, image, output, k, ser, nonzero>>

\* interpolate2DCross lines 136-191: the argument checks, the zero output and
\* the vectorised filters and pixel ranges
CallCross ==
    /\ fn = "interpolate2DCross"
    /\ pc = "start"
    /\ IF CheckCross(args) # ""
       THEN /\ pc' = "raised"
            /\ err' = CheckCross(args)
            /\ UNCHANGED <<output, k, ser, nonzero>>
       ELSE /\ pc' = "loop"
            /\ output' = ZerosCross(args)
            /\ ser' = SeriesCross(LineCross(args), data)
            /\ nonzero' = NonzeroCross(LineCross(args), data)
            /\ k' = 1
            /\ UNCHANGED err
    /\ UNCHANGED <<powup, fn, args, data, image>>

\* interpolate2DCross lines 194-205: one pass of the loop over nonzero
ParticleCross ==
    /\ fn = "interpolate2DCross"
    /\ pc = "loop"
    /\ k <= Len(nonzero)
    /\ IF KeyErrorCross(ser, nonzero[k])
       THEN /\ pc' = "raised"
            /\ err' = "KeyError"
            /\ UNCHANGED <<output, k>>
       ELSE /\ output' = AccumulateCross(output, LineCross(args), data, ser, nonzero[k])
            /\ k' = k + 1
            /\ UNCHANGED <<pc, err>>
    /\ UNCHANGED <<powup, fn, args, data, image, ser, nonzero>>

\* interpolate2DCross line 207
ReturnCross ==
    /\ fn = "interpolate2DCross"
    /\ pc = "loop"
    /\ k > Len(nonzero)
    /\ pc' = "done"
    /\ UNCHANGED <<powup, fn, args, data, err, image, output, k, ser, nonzero>>

Next2D == Call2D \/ Particle2D \/ Return2D

NextCross == CallCross \/ ParticleCross \/ ReturnCross

Next == Next2D \/ NextCross

---------------------------------------------------------------------------
(* The calls that are checked.                                             *)

MaxParticles == 2

MaxPix == 3

\* a particle row: position, mass, density, smoothing length, target value
Particle(x, y, m, rho, h, target) ==
    [x |-> x, y |-> y, m |-> m, rho |-> rho, h |-> h, target |-> target]

Grid(pixwidthx, pixwidthy, xmin, ymin, pixcountx, pixcounty, ndims, kernel) ==
    [kernel |-> kernel, pixwidthx |-> pixwidthx, pixwidthy |-> pixwidthy, xmin |-> xmin, ymin |-> ymin,
     pixcountx |-> pixcountx, pixcounty |-> pixcounty, ndims |-> ndims]

Line(x1, y1, x2, y2, pixcount, ndims, kernel) ==
    [x1 |-> x1, y1 |-> y1, x2 |-> x2, y2 |-> y2, pixcount |-> pixcount, ndims |-> ndims,
     kernel |-> kernel]

SeqsUpTo(P, n) == UNION {[1..m -> P] : m \in 0..n}

Calls2D(Grids, Datas) ==
    {[fn |-> "interpolate2D", args |-> g, data |-> d] : g \in Grids, d \in Datas}

CallsCross(Lines, Datas) ==
    {[fn |-> "interpolate2DCross", args |-> l, data |-> d] : l \in Lines, d \in Datas}

\* the double nearest to n / 10
Tenths(n) == FDiv(FInt(n), FInt(10))

\* Particles on and around the line y = 0: contributing ones (one of them at
\* x = 1.1 with h = 0.3, which are no dyadic numbers), ones beyond the ends,
\* one far from the line, and ones with non-positive m, rho or target
Particles ==
    { Particle(FInt(1), Zero, FInt(1), FInt(1), F(3, -2), FInt(1)),
      Particle(FInt(2), Zero, FInt(1), FInt(1), F(3, -2), FInt(2)),
      Particle(F(1, -1), Zero, FInt(1), FInt(1), F(1, -2), FInt(1)),
      Particle(Tenths(11), Zero, FInt(1), FInt(1), Tenths(3), FInt(1)),
      Particle(FInt(-2), Zero, FInt(1), FInt(1), F(1, -2), FInt(1)),
      Particle(FInt(5), Zero, FInt(1), FInt(1), F(3, -2), FInt(1)),
      Particle(FInt(1), FInt(3), FInt(1), FInt(1), F(1, -2), FInt(1)),
      Particle(FInt(1), Zero, FInt(-1), FInt(1), F(3, -2), FInt(1)),
      Particle(FInt(1), Zero, FInt(1), FInt(-1), F(3, -2), FInt(1)),
      Particle(FInt(1), Zero, FInt(-1), FInt(-1), F(3, -2), FInt(1)),
      Particle(FInt(1), Zero, Zero, FInt(1), F(3, -2), FInt(1)),
      Particle(FInt(1), Zero, FInt(1), FInt(1), F(3, -2), Zero) }

Grids ==
    UNION { { Grid(FInt(1), FInt(1), Zero, Zero, MaxPix, 2, 2, w),
              Grid(FInt(2), FInt(1), FInt(-1), Zero, 2, 2, 2, w) } : w \in Kernels }

\* the segment (0,0)-(3,0) in both directions and the vertical one (1,0)-(1,3)
Lines ==
    { Line(Zero, Zero, FInt(3), Zero, n, 2, w) : n \in (MaxPix - 1)..MaxPix, w \in Kernels } \cup
    { Line(FInt(3), Zero, Zero, Zero, n, 2, w) : n \in (MaxPix - 1)..MaxPix, w \in Kernels } \cup
    { Line(FInt(1), Zero, FInt(1), FInt(3), n, 2, w) : n \in (MaxPix - 1)..MaxPix, w \in Kernels }

\* Particles on and around the sloping segment (0,0)-(4,3)
SlopeParticles ==
    { Particle(FInt(2), F(3, -1), FInt(1), FInt(1), F(3, -2), FInt(1)),
      Particle(Zero, Zero, FInt(1), FInt(1), F(1, -2), FInt(2)),
      Particle(FInt(8), FInt(6), FInt(1), FInt(1), F(1, -2), FInt(1)),
      Particle(FInt(4), FInt(-3), FInt(1), FInt(1), F(1, -2), FInt(1)),
      Particle(FInt(2), F(3, -1), FInt(-1), FInt(1), F(3, -2), FInt(1)) }

\* the segment (0,0)-(4,3) in both directions, and (0,0)-(4,3.1), whose
\* length, slope and intercept have squares that are no doubles
SlopeLines ==
    UNION { { Line(Zero, Zero, FInt(4), FInt(3), 5, 2, w),
              Line(FInt(4), FInt(3), Zero, Zero, 5, 2, w),
              Line(Zero, Zero, FInt(4), Tenths(31), 5, 2, w) } : w \in Kernels }

Init ==
    InitCalls(Calls2D(Grids, SeqsUpTo(Particles, MaxParticles))
              \cup CallsCross(Lines, SeqsUpTo(Particles, MaxParticles))
              \cup CallsCross(SlopeLines, SeqsUpTo(SlopeParticles, MaxParticles)))

Spec == Init /\ [][Next]_vars

\* Argument checks: every combination of valid and invalid scalar arguments
ArgGrids ==
    { Grid(FInt(wx), FInt(wy), Zero, Zero, cx, cy, nd, w) :
        wx \in -1..1, wy \in -1..1, cx \in -1..2, cy \in -1..2, nd \in 1..3,
        w \in Kernels }

ArgLines ==
    { Line(FInt(x1), FInt(y1), FInt(x2), FInt(y2), n, nd, w) :
        x1 \in {0, 4}, y1 \in {0, 3}, x2 \in {0, 4}, y2 \in {0, 3},
        n \in -1..2, nd \in 1..3, w \in Kernels }

ArgParticles == { Particle(Zero, Zero, FInt(1), FInt(1), F(1, -2), FInt(1)) }

InitArgs ==
    InitCalls(Calls2D(ArgGrids, SeqsUpTo(ArgParticles, MaxParticles))
              \cup CallsCross(ArgLines, SeqsUpTo(ArgParticles, MaxParticles)))

SpecArgs == InitArgs /\ [][Next]_vars

\* One particle with m = rho = target = 1 at the centre of cell (i, j) of a
\* grid, its support disk as wide as one pixel: radkernel * h = pixwidthx / 2
Centred(g, i, j) ==
    Particle(FAdd(g.xmin, FMul(F(2 * i + 1, -1), g.pixwidthx)),
             FAdd(g.ymin, FMul(F(2 * j + 1, -1), g.pixwidthy)),
             FInt(1), FInt(1), FDiv(g.pixwidthx, FInt(2 * radkernel)), FInt(1))

SingleGrids ==
    { Grid(wx, wy, x0, y0, cx, cy, 2, w) :
        wx \in {F(1, -1), FInt(1), FInt(2), Tenths(1)},
        wy \in {F(1, -1), FInt(1), FInt(2), Tenths(1)},
        x0 \in {FInt(-1), Zero}, y0 \in {Zero, F(1, -1)},
        cx \in 1..MaxPix, cy \in 1..MaxPix, w \in Kernels }

InitSingle ==
    InitCalls(UNION { { [fn |-> "interpolate2D", args |-> g,
                         data |-> <<Centred(g, i, j)>>] :
                            i \in 0..(g.pixcountx - 1), j \in 0..(g.pixcounty - 1) } :
                      g \in SingleGrids })

SpecSingle == InitSingle /\ [][Next2D]_vars

\* Two particles with the same m, rho, h and target at positions that are
\* mirror images of each other about the midpoint of the line
Mirror(a, p) ==
    [p EXCEPT !.x = FSub(FAdd(a.x1, a.x2), p.x), !.y = FSub(FAdd(a.y1, a.y2), p.y)]

MirrorParticles ==
    { Particle(F(x2, -1), Zero, FInt(1), FInt(1), F(h4, -2), FInt(1)) :
        x2 \in -2..8, h4 \in 1..3 } \cup Particles

MirrorLines ==
    { Line(Zero, Zero, FInt(3), Zero, n, 2, w) : n \in 1..(MaxPix + 1), w \in Kernels } \cup
    { Line(FInt(3), Zero, Zero, Zero, n, 2, w) : n \in 1..(MaxPix + 1), w \in Kernels } \cup
    { Line(FInt(1), Zero, FInt(1), FInt(3), n, 2, w) : n \in 1..(MaxPix + 1), w \in Kernels }

InitMirror ==
    InitCalls({ [fn |-> "interpolate2DCross", args |-> l, data |-> <<p, Mirror(l, p)>>] :
                    l \in MirrorLines, p \in MirrorParticles }
              \cup { [fn |-> "interpolate2DCross", args |-> l,
                      data |-> <<p, Mirror(l, p)>>] :
                    l \in SlopeLines, p \in SlopeParticles })

SpecMirror == InitMirror /\ [][NextCross]_vars

---------------------------------------------------------------------------
(* The claims.                                                             *)

ValueErrors2D ==
    {"ValueError:pixwidthx", "ValueError:pixwidthy", "ValueError:pixcountx",
     "ValueError:pixcounty"}

Finished == pc \in {"done", "raised"}

\* C1: interpolate2D called with pixwidthx <= 0, pixwidthy <= 0, pixcountx <= 0
\* or pixcounty <= 0 (any one of them, whatever the others and the kernel are)
\* ends in a ValueError about one of the four, raised before the image is
\* allocated and before the loop over the particles is entered.
C1_InvalidGridRaises ==
    ( /\ fn = "interpolate2D"
      /\ pc # "start"
      /\ \/ FLe(args.pixwidthx, Zero)
         \/ FLe(args.pixwidthy, Zero)
         \/ args.pixcountx <= 0
         \/ args.pixcounty <= 0 )
    => /\ pc = "raised"
       /\ err \in ValueErrors2D
       /\ image = <<>>
       /\ k = 0

\* C1: a call with particles whose only invalid argument is pixcounty has raised
C1_Witness ==
    /\ fn = "interpolate2D"
    /\ pc = "raised"
    /\ Len(data) > 0
    /\ FLt(Zero, args.pixwidthx)
    /\ FLt(Zero, args.pixwidthy)
    /\ args.pixcountx > 0
    /\ args.pixcounty = 0
    /\ args.ndims = 2

\* C2: interpolate2DCross called with coincident endpoints, or with
\* pixcount <= 0, ends in a ValueError raised before the output array is
\* created and before any particle is filtered or processed.
C2_InvalidLineRaises ==
    ( /\ fn = "interpolate2DCross"
      /\ pc # "start"
      /\ \/ (args.x1 = args.x2 /\ args.y1 = args.y2)
         \/ args.pixcount <= 0 )
    => /\ pc = "raised"
       /\ err \in {"ValueError:zero length", "ValueError:pixcount"}
       /\ output = <<>>
       /\ ser = NoSeries
       /\ nonzero = <<>>
       /\ k = 0

\* C2: a call with particles, a valid pixcount and coincident endpoints has raised
C2_Witness ==
    /\ fn = "interpolate2DCross"
    /\ pc = "raised"
    /\ Len(data) > 0
    /\ args.x1 = args.x2
    /\ args.y1 = args.y2
    /\ args.pixcount > 0
    /\ args.ndims = 2

\* C3: for both entry points a call whose other arguments are valid and whose
\* kernel has ndims # 2 ends in the kernel's ValueError, raised before any
\* buffer is allocated and before the loop that evaluates kernel.w is entered.
C3_WrongKernelRaises ==
    ( /\ pc # "start"
      /\ args.ndims # 2
      /\ \/ /\ fn = "interpolate2D"
            /\ FLt(Zero, args.pixwidthx) /\ FLt(Zero, args.pixwidthy)
            /\ args.pixcountx > 0 /\ args.pixcounty > 0
         \/ /\ fn = "interpolate2DCross"
            /\ ~(args.x1 = args.x2 /\ args.y1 = args.y2)
            /\ args.pixcount > 0 )
    => /\ pc = "raised"
       /\ err = "ValueError:kernel"
       /\ image = <<>>
       /\ output = <<>>
       /\ nonzero = <<>>
       /\ k = 0

\* C3: a cross-section call with particles, a valid line and a 3D kernel has raised
C3_Witness ==
    /\ fn = "interpolate2DCross"
    /\ pc = "raised"
    /\ Len(data) > 0
    /\ args.ndims = 3
    /\ ~(args.x1 = args.x2 /\ args.y1 = args.y2)
    /\ args.pixcount > 0

\* what the call handed back: the exception, or the returned array
Outcome ==
    IF pc = "raised" THEN [err |-> err, value |-> <<>>]
    ELSE [err |-> "", value |-> IF fn = "interpolate2D" THEN image ELSE output]

Run(f, a, d) == IF f = "interpolate2D" THEN interpolate2D(a, d) ELSE interpolate2DCross(a, d)

Permuted(d, f) == [r \in 1..Len(d) |-> d[f[r]]]

NonZeroImage == \E jpix \in DOMAIN image : \E ipix \in DOMAIN image[jpix] : image[jpix][ipix] # Zero

NonZeroOutput == \E ipix \in DOMAIN output : output[ipix] # Zero

\* C4: order independence.  For both entry points, for every particle
\* collection and every permutation of its rows, the call on the permuted
\* collection hands back the same array, cell by cell, as the call on the
\* original one.
C4_OrderIndependent ==
    Finished =>
        \A f \in Permutations(1..Len(data)) : Run(fn, args, Permuted(data, f)) = Outcome

\* C4 restricted to interpolate2D
C4_OrderIndependent2D ==
    (Finished /\ fn = "interpolate2D") =>
        \A f \in Permutations(1..Len(data)) : Run(fn, args, Permuted(data, f)) = Outcome

\* C5 as stated: in interpolate2D a particle with rho <= 0 or m <= 0, whatever
\* the sign of the other quantity, leaves the image as it was.
C5_SkipRule ==
    [][ ( /\ fn = "interpolate2D" /\ pc = "loop" /\ k <= Len(data)
          /\ (FLe(data[k].rho, Zero) \/ FLe(data[k].m, Zero)) )
        => image' = image ]_vars

\* C5 as amended: in interpolate2D a particle leaves the image as it was when
\* its weight m / (rho * h^2) is <= 0, that is when m = 0, or when exactly one
\* of m and rho is negative (rho and h nonzero).
C5_SkipNonPositiveWeight ==
    [][ ( /\ fn = "interpolate2D" /\ pc = "loop" /\ k <= Len(data)
          /\ \/ data[k].m = Zero
             \/ (FLt(data[k].m, Zero) /\ FLt(Zero, data[k].rho))
             \/ (FLt(Zero, data[k].m) /\ FLt(data[k].rho, Zero)) )
        => image' = image ]_vars

\* C5: a particle of negative mass and positive density was passed over after
\* another particle had filled cells of the image
C5_Witness ==
    /\ fn = "interpolate2D"
    /\ pc = "loop"
    /\ k = 3
    /\ FLt(data[2].m, Zero)
    /\ FLt(Zero, data[2].rho)
    /\ NonZeroImage

\* the support disk (centre (x, y), radius radkernel * h) lies beyond the grid
\* rectangle on the x axis or on the y axis; the numbers compared are exact
Outside2D(a, p) ==
    LET r == DMul(FInt(radkernel), p.h)
    IN  \/ FLt(DAdd(p.x, r), a.xmin)
        \/ FLt(DAdd(a.xmin, DMul(FInt(a.pixcountx), a.pixwidthx)), DSub(p.x, r))
        \/ FLt(DAdd(p.y, r), a.ymin)
        \/ FLt(DAdd(a.ymin, DMul(FInt(a.pixcounty), a.pixwidthy)), DSub(p.y, r))

\* the support disk has no point on the segment [P1, P2]: it meets the
\* infinite line beyond the segment's ends only, or not at all.  With
\* e = P2 - P1 and v = p - P1 the point of the segment nearest to p is P1 when
\* v.e <= 0, P2 when v.e >= e.e, and the foot of the perpendicular otherwise,
\* at squared distance v.v - (v.e)^2 / e.e; the numbers compared are exact
OffSegment(a, p) ==
    LET ex == DSub(a.x2, a.x1)
        ey == DSub(a.y2, a.y1)
        vx == DSub(p.x, a.x1)
        vy == DSub(p.y, a.y1)
        ee == DAdd(DMul(ex, ex), DMul(ey, ey))
        ve == DAdd(DMul(vx, ex), DMul(vy, ey))
        vv == DAdd(DMul(vx, vx), DMul(vy, vy))
        ux == DSub(p.x, a.x2)
        uy == DSub(p.y, a.y2)
        uu == DAdd(DMul(ux, ux), DMul(uy, uy))
        r2 == DMul(DMul(FInt(radkernel), p.h), DMul(FInt(radkernel), p.h))
    IN  IF FLe(ve, Zero) THEN FLt(r2, vv)
        ELSE IF FLe(ee, ve) THEN FLt(r2, uu)
        ELSE FLt(DMul(ve, ve), DMul(DSub(vv, r2), ee))

\* C6: locality.  A pass of interpolate2D's loop for a particle whose support
\* disk lies beyond the grid on some axis changes no cell of the image, and a
\* pass of interpolate2DCross's loop for a particle whose support disk has no
\* point on the segment changes no cell of the output.
C6_Locality ==
    [][ /\ ( /\ fn = "interpolate2D" /\ pc = "loop" /\ k <= Len(data)
             /\ Outside2D(args, data[k]) )
           => image' = image
        /\ ( /\ fn = "interpolate2DCross" /\ pc = "loop" /\ k <= Len(nonzero)
             /\ nonzero[k] \in Labels(data)
             /\ OffSegment(args, Row(data, nonzero[k])) )
           => output' = output ]_vars

\* C6: the loop of interpolate2DCross has passed over a particle of positive
\* weight whose disk meets the line beyond the segment's end only, after an
\* earlier particle had filled cells of the output
C6_Witness ==
    /\ fn = "interpolate2DCross"
    /\ pc = "loop"
    /\ k = 3
    /\ nonzero = <<0, 1>>
    /\ OffSegment(args, Row(data, 1))
    /\ NonZeroOutput

\* C6, the grid: the loop of interpolate2D has passed over a particle of
\* positive weight whose disk lies beyond the grid, after an earlier particle
\* had filled cells of the image
C6_Witness2D ==
    /\ fn = "interpolate2D"
    /\ pc = "loop"
    /\ k = 3
    /\ Outside2D(args, data[2])
    /\ ~Skip2D(data[2])
    /\ NonZeroImage

\* C7 as stated: symmetry.  With two particles of identical m, rho, h and
\* target at positions mirrored about the midpoint of the line,
\* interpolate2DCross returns a palindromic output:
\* output[i] = output[pixcount-1-i] for all i.
C7_Palindromic ==
    (fn = "interpolate2DCross" /\ Finished /\ CheckCross(args) = "")
    => /\ pc = "done"
       /\ \A ipix \in DOMAIN output : output[ipix] = output[args.pixcount - 1 - ipix]

\* How C7 fails on half-integer boundaries: a returned profile of two
\* distinct mirrored particles whose rounded pixel ranges are not mirror
\* images of each other (np.rint rounds a half to the even neighbour), so
\* that one particle reaches a pixel whose midpoint lies on the edge of its
\* support and the other does not reach the mirror pixel: two mirror cells
\* differ by term * w(radkernel), for a kernel that is not 0 at radkernel
HalfIntegerCross ==
    /\ fn = "interpolate2DCross"
    /\ pc = "done"
    /\ data[1] # data[2]
    /\ DOMAIN ser.ipixmin = {0, 1}
    /\ ser.ipixmin[1] # args.pixcount - ser.ipixmax[0]
    /\ KernelW(args.kernel, FInt(radkernel)) # Zero
    /\ \E ipix \in DOMAIN output :
          FSub(output[ipix], output[args.pixcount - 1 - ipix])
              = FMul(term(data[1]), KernelW(args.kernel, FInt(radkernel)))

\* C8: single particle.  One particle with m = rho = target = 1 at the exact
\* centre of cell (i, j), its support disk spanning one pixel
\* (radkernel * h = pixwidthx / 2 = pixwidthy / 2), yields an image that is
\* zero everywhere except image[j][i] = term * w(0), term the particle's
\* weight * target of line 64.
C8_SingleParticle ==
    ( /\ fn = "interpolate2D" /\ pc = "done"
      /\ args.pixwidthx = args.pixwidthy )
    => \E i \in 0..(args.pixcountx - 1), j \in 0..(args.pixcounty - 1) :
          /\ data = <<Centred(args, i, j)>>
          /\ \A jpix \in DOMAIN image : \A ipix \in DOMAIN image[jpix] :
                image[jpix][ipix] =
                    IF jpix = j /\ ipix = i
                    THEN FMul(term2D(data[1]), KernelW(args.kernel, Zero))
                    ELSE Zero

\* C8: the image of a grid of several rows and columns, returned for a
\* particle at the centre of an inner or last cell, holds a non-zero value
C8_Witness ==
    /\ fn = "interpolate2D"
    /\ pc = "done"
    /\ args.pixwidthx = args.pixwidthy
    /\ args.pixcountx > 2
    /\ args.pixcounty > 1
    /\ data = <<Centred(args, 1, 1)>>
    /\ image[1][1] # Zero

\* the sum, over the particles that pass the weight filter and the det >= 0
\* filter, of term_p * w(q_p) over the particle's own pixel range, the rows
\* l-1, .. 0 added to the zero of np.zeros in the order of their labels
RECURSIVE SumCross(_, _, _, _)
SumCross(L, d, ipix, l) ==
    IF l = 0 THEN Zero
    ELSE LET p == Row(d, l - 1)
             s == SumCross(L, d, ipix, l - 1)
         IN  IF /\ filter_weight(p)
                /\ filter_det(L, p)
                /\ ipixminCross(L, p) <= ipix
                /\ ipix < ipixmaxCross(L, p)
             THEN FAdd(s, FMul(wabCross(L, p, ipix), term(p)))
             ELSE s

\* C9: attribution.  For every particle collection, a call of
\* interpolate2DCross with valid arguments returns, and its output is the
\* sum over exactly the particles passing both filters of each particle's own
\* term * w(q) over its own pixel range; a particle of non-positive weight
\* anywhere in the collection changes nothing and raises no error.
C9_Attribution ==
    (fn = "interpolate2DCross" /\ Finished /\ CheckCross(args) = "")
    => /\ pc = "done"
       /\ \A ipix \in DOMAIN output : output[ipix] = SumCross(LineCross(args), data, ipix, Len(data))

Swapped(a) == [a EXCEPT !.x1 = a.x2, !.y1 = a.y2, !.x2 = a.x1, !.y2 = a.y1]

\* C10: direction independence.  For every particle collection and pair of
\* distinct endpoints, the profile returned from P2 to P1 is the reverse of
\* the profile returned from P1 to P2: out_rev[i] = out_fwd[pixcount-1-i].
C10_DirectionIndependent ==
    (fn = "interpolate2DCross" /\ pc = "done")
    => LET rev == interpolate2DCross(Swapped(args), data)
       IN  rev.err = "" =>
              \A ipix \in DOMAIN output :
                 rev.value[ipix] = output[args.pixcount - 1 - ipix]

\* C4 for the calls that return for both orders
C4_OrderIndependentReturned ==
    Finished =>
        \A f \in Permutations(1..Len(data)) :
            (Outcome.err = "" /\ Run(fn, args, Permuted(data, f)).err = "")
            => Run(fn, args, Permuted(data, f)) = Outcome

\* The state machine and the operators interpolate2D, interpolate2DCross agree
RunAgrees == Finished => Outcome = Run(fn, args, data)

====
